---- MODULE Spec2Model ----
(***************************************************************************)
(* archinstall/lib/pacman.py : run_pacman, the lock gate in front of the   *)
(* package manager.  Each caller of run_pacman is a runner r; its program  *)
(* counter pc[r] names the source line it is about to execute.  The lock   *)
(* file /var/lib/pacman/db.lck belongs to the package manager, which is a  *)
(* concurrent process that creates and deletes it.                         *)
(*                                                                         *)
(* Time is wall-clock time in milliseconds.  time.sleep(0.25) lasts exactly *)
(* one poll interval and every other statement takes no time.              *)
(***************************************************************************)
EXTENDS Integers, Sequences, FiniteSets, TLC

\* ---------------------------------------------------------------- bounds
NumRunners == 2         \* processes calling run_pacman in SpecMulti
MaxPollsMulti == 2      \* sleeps explored per runner in SpecMulti
MaxPrompts == 3         \* TextInput prompts answered in one call
MaxText == 3            \* characters typed at the package prompt
MaxNumberText == 2      \* characters typed at the parallel-downloads prompt
MaxConfLines == 2       \* newline-terminated lines of /etc/pacman.conf

\* ------------------------------------------------------ program constants
PollInterval == 250                 \* time.sleep(0.25), in ms
Ceiling == 60 * 10 * 1000           \* (60 * 10) seconds, in ms
WARN == 30                          \* logging.WARN
ERROR == 40                         \* logging.ERROR
DEBUG == 10                         \* logging.DEBUG
ExitCode == 1                       \* exit(1)
max_downloads == 5                  \* general_conf.py, max_downloads = 5

Runners == 1..NumRunners
Solo == {1}
Unset == -1

VARIABLES
    pacman_db_lock,   \* TRUE iff /var/lib/pacman/db.lck exists
    now,              \* time.time(), ms
    pc,               \* pc[r]: next source line of runner r, or a terminal state
    started,          \* started[r]: local variable `started`, Unset before line 23
    stdout,           \* stdout[r]: levels of the messages written by log()
    exitStatus,       \* exitStatus[r]: status given to exit(), Unset while running
    handleAt,         \* handleAt[r]: time the SysCommand was returned, Unset before
    \* observation history of the run (what the runner saw and did)
    firstCheck,       \* result of the line-20 check: "none", "present", "absent"
    lastCheck,        \* result of the most recent lock check
    firstLoopCheck,   \* result of the first line-24 check
    sleeps,           \* number of time.sleep calls made
    exitAt,           \* time of the exit() call, Unset before
    sinceCheck,       \* durations of the time.sleep calls since the most recent lock check
    \* history of the lock file since the runner's first check
    lockHist,         \* lockHist[r]: [kind |-> "held"], [kind |-> "removed", at |-> t], [kind |-> "other"]
    cleared,          \* cleared[r]: "undetected" until a check sees the lock, then "no" until
                      \* the tool deletes the lock before the ceiling has elapsed, then "yes"
    \* the call and its result
    call,             \* call[r]: the arguments the caller passed to run_pacman
    handle,           \* handle[r]: <<>> or <<command string of the returned SysCommand>>
    \* general_conf.py, ask_additional_packages_to_install
    pkgPc,            \* next source line of the call, "idle" or "returned"
    storage,          \* storage['arguments']: offline, no_pkg_lookups
    preset,           \* parameter preset: a list of package names
    packages,         \* local packages
    valid,            \* local valid
    invalid,          \* local invalid
    display,          \* preset text given to the most recent TextInput
    pkgOut,           \* levels of the messages written by log()
    prompts,          \* number of TextInput prompts answered
    entered,          \* list the most recent read_packages returned
    validated,        \* list given to the most recent validate_package_list
    validations,      \* number of validate_package_list calls
    result,           \* <<>> or <<the returned list>>
    \* general_conf.py, add_number_of_parrallel_downloads
    dlPc,             \* next source line of the call, "idle" or "returned"
    input_number,     \* local input_number, Unset while None
    conf_file,        \* /etc/pacman.conf: [lines |-> terminated lines, tail |-> text after the last newline]
    conf_before,      \* /etc/pacman.conf as it was when the call started
    pacman_conf,      \* local pacman_conf, the list f.read().split("\n")
    dlTyped,          \* text typed at the most recent prompt
    dlPrompts,        \* number of TextInput prompts answered
    dlResult          \* returned number, Unset before

pacmanVars == <<pacman_db_lock, now, pc, started, stdout, exitStatus, handleAt,
                firstCheck, lastCheck, firstLoopCheck, sleeps, exitAt, sinceCheck,
                lockHist, cleared, call, handle>>

pkgVars == <<pkgPc, storage, preset, packages, valid, invalid, display, pkgOut,
             prompts, entered, validated, validations, result>>

dlVars == <<dlPc, input_number, conf_file, conf_before, pacman_conf, dlTyped,
            dlPrompts, dlResult>>

vars == <<pacmanVars, pkgVars, dlVars>>

runnerVars == <<pc, started, stdout, exitStatus, handleAt,
                firstCheck, lastCheck, firstLoopCheck, sleeps, exitAt, sinceCheck,
                call, handle>>

Held == [kind |-> "held", at |-> Unset]
Other == [kind |-> "other", at |-> Unset]
Removed(t) == [kind |-> "removed", at |-> t]

\* pathlib.Path.exists(): a read of the file system
exists == pacman_db_lock

Observation(b) == IF b THEN "present" ELSE "absent"

\* the caller's arguments: args, and default_cmd or nothing
Omitted == "<omitted>"
Args == {"-Syy", "--noconfirm -S vim"}
CmdGiven == {Omitted, "pacman", "pacman-key"}

\* line 12: the value bound to the parameter default_cmd
default_cmd(r) == IF call[r].default_cmd = Omitted THEN "pacman" ELSE call[r].default_cmd

\* line 12: the value bound to the parameter args
args(r) == call[r].args

\* ask_additional_packages_to_install has not been called
PkgIdle ==
    /\ pkgPc = "idle"
    /\ storage = [offline |-> FALSE, no_pkg_lookups |-> FALSE]
    /\ preset = <<>>
    /\ packages = <<>>
    /\ valid = <<>>
    /\ invalid = <<>>
    /\ display = <<>>
    /\ pkgOut = <<>>
    /\ prompts = 0
    /\ entered = <<>>
    /\ validated = <<>>
    /\ validations = 0
    /\ result = <<>>

\* add_number_of_parrallel_downloads has not been called
DlIdle ==
    /\ dlPc = "idle"
    /\ input_number = Unset
    /\ conf_file = [lines |-> <<>>, tail |-> <<>>]
    /\ conf_before = conf_file
    /\ pacman_conf = <<>>
    /\ dlTyped = <<>>
    /\ dlPrompts = 0
    /\ dlResult = Unset

\* run_pacman has not been called
RunnerIdle ==
    /\ pacman_db_lock = FALSE
    /\ now = 0
    /\ pc = [r \in Runners |-> "idle"]
    /\ started = [r \in Runners |-> Unset]
    /\ stdout = [r \in Runners |-> <<>>]
    /\ exitStatus = [r \in Runners |-> Unset]
    /\ handleAt = [r \in Runners |-> Unset]
    /\ firstCheck = [r \in Runners |-> "none"]
    /\ lastCheck = [r \in Runners |-> "none"]
    /\ firstLoopCheck = [r \in Runners |-> "none"]
    /\ sleeps = [r \in Runners |-> 0]
    /\ exitAt = [r \in Runners |-> Unset]
    /\ sinceCheck = [r \in Runners |-> <<>>]
    /\ lockHist = [r \in Runners |-> Held]
    /\ cleared = [r \in Runners |-> "undetected"]
    /\ call = [r \in Runners |-> [args |-> "", default_cmd |-> Omitted]]
    /\ handle = [r \in Runners |-> <<>>]

\* run_pacman is about to be entered with arguments from A and C
Called(A, C) ==
    /\ PkgIdle
    /\ DlIdle
    /\ pacman_db_lock \in BOOLEAN
    /\ now = 0
    /\ pc = [r \in Runners |-> "L20"]
    /\ started = [r \in Runners |-> Unset]
    /\ stdout = [r \in Runners |-> <<>>]
    /\ exitStatus = [r \in Runners |-> Unset]
    /\ handleAt = [r \in Runners |-> Unset]
    /\ firstCheck = [r \in Runners |-> "none"]
    /\ lastCheck = [r \in Runners |-> "none"]
    /\ firstLoopCheck = [r \in Runners |-> "none"]
    /\ sleeps = [r \in Runners |-> 0]
    /\ exitAt = [r \in Runners |-> Unset]
    /\ sinceCheck = [r \in Runners |-> <<>>]
    /\ lockHist = [r \in Runners |-> Held]
    /\ cleared = [r \in Runners |-> "undetected"]
    /\ call \in [Runners -> [args : A, default_cmd : C]]
    /\ handle = [r \in Runners |-> <<>>]

\* the usual call: run_pacman('-Syy')
Init == Called({"-Syy"}, {Omitted})

\* ------------------------------------------------------------- output.py
\* log(): the text goes to stdout unless level is DEBUG (and not verbose)
log(r, level) ==
    stdout' = [stdout EXCEPT ![r] = IF level # DEBUG THEN Append(@, level) ELSE @]

warn(r) == log(r, WARN)

error(r) == log(r, ERROR)

Count(s, level) == Cardinality({i \in 1..Len(s) : s[i] = level})

\* ------------------------------------------------------------- pacman.py
\* mutant: the warning is emitted whatever the check saw
FirstCheck_AlwaysWarn(r) ==
    /\ pc[r] = "L20"
    /\ pc' = [pc EXCEPT ![r] = "L21"]
    /\ firstCheck' = [firstCheck EXCEPT ![r] = Observation(exists)]
    /\ lastCheck' = [lastCheck EXCEPT ![r] = Observation(exists)]
    /\ sinceCheck' = [sinceCheck EXCEPT ![r] = <<>>]
    /\ cleared' = [cleared EXCEPT ![r] = IF @ = "undetected" /\ exists THEN "no" ELSE @]
    /\ UNCHANGED <<pacman_db_lock, now, started, stdout, exitStatus, handleAt,
                   firstLoopCheck, sleeps, exitAt, lockHist,
                   handle, call, pkgVars, dlVars>>

\* line 20: if pacman_db_lock.exists():
FirstCheck(r) ==
    /\ pc[r] = "L20"
    /\ pc' = [pc EXCEPT ![r] = IF exists THEN "L21" ELSE "L23"]
    /\ firstCheck' = [firstCheck EXCEPT ![r] = Observation(exists)]
    /\ lastCheck' = [lastCheck EXCEPT ![r] = Observation(exists)]
    /\ sinceCheck' = [sinceCheck EXCEPT ![r] = <<>>]
    /\ cleared' = [cleared EXCEPT ![r] = IF @ = "undetected" /\ exists THEN "no" ELSE @]
    /\ UNCHANGED <<pacman_db_lock, now, started, stdout, exitStatus, handleAt,
                   firstLoopCheck, sleeps, exitAt, lockHist,
                   handle, call, pkgVars, dlVars>>

\* line 21: warn(...)
Warn(r) ==
    /\ pc[r] = "L21"
    /\ warn(r)
    /\ pc' = [pc EXCEPT ![r] = "L23"]
    /\ UNCHANGED <<pacman_db_lock, now, started, exitStatus, handleAt,
                   firstCheck, lastCheck, firstLoopCheck, sleeps, exitAt, lockHist,
                   sinceCheck, cleared, handle, call, pkgVars, dlVars>>

\* line 23: started = time.time()
ReadStarted(r) ==
    /\ pc[r] = "L23"
    /\ started' = [started EXCEPT ![r] = now]
    /\ pc' = [pc EXCEPT ![r] = "L24"]
    /\ UNCHANGED <<pacman_db_lock, now, stdout, exitStatus, handleAt,
                   firstCheck, lastCheck, firstLoopCheck, sleeps, exitAt, lockHist,
                   sinceCheck, cleared, handle, call, pkgVars, dlVars>>

\* mutant: the lock gates the command only when the tool is pacman
LoopCheck_PacmanOnly(r) ==
    /\ pc[r] = "L24"
    /\ pc' = [pc EXCEPT ![r] = IF exists /\ default_cmd(r) = "pacman" THEN "L25" ELSE "L31"]
    /\ lastCheck' = [lastCheck EXCEPT ![r] = Observation(exists)]
    /\ firstLoopCheck' = [firstLoopCheck EXCEPT ![r] = IF @ = "none" THEN Observation(exists) ELSE @]
    /\ sinceCheck' = [sinceCheck EXCEPT ![r] = <<>>]
    /\ cleared' = [cleared EXCEPT ![r] = IF @ = "undetected" /\ exists THEN "no" ELSE @]
    /\ UNCHANGED <<pacman_db_lock, now, started, stdout, exitStatus, handleAt,
                   firstCheck, sleeps, exitAt, lockHist,
                   handle, call, pkgVars, dlVars>>

\* mutant: the loop condition is inverted
LoopCheck_Inverted(r) ==
    /\ pc[r] = "L24"
    /\ pc' = [pc EXCEPT ![r] = IF ~exists THEN "L25" ELSE "L31"]
    /\ lastCheck' = [lastCheck EXCEPT ![r] = Observation(exists)]
    /\ firstLoopCheck' = [firstLoopCheck EXCEPT ![r] = IF @ = "none" THEN Observation(exists) ELSE @]
    /\ sinceCheck' = [sinceCheck EXCEPT ![r] = <<>>]
    /\ cleared' = [cleared EXCEPT ![r] = IF @ = "undetected" /\ exists THEN "no" ELSE @]
    /\ UNCHANGED <<pacman_db_lock, now, started, stdout, exitStatus, handleAt,
                   firstCheck, sleeps, exitAt, lockHist,
                   handle, call, pkgVars, dlVars>>

\* line 24: while pacman_db_lock.exists():
LoopCheck(r) ==
    /\ pc[r] = "L24"
    /\ pc' = [pc EXCEPT ![r] = IF exists THEN "L25" ELSE "L31"]
    /\ lastCheck' = [lastCheck EXCEPT ![r] = Observation(exists)]
    /\ firstLoopCheck' = [firstLoopCheck EXCEPT ![r] = IF @ = "none" THEN Observation(exists) ELSE @]
    /\ sinceCheck' = [sinceCheck EXCEPT ![r] = <<>>]
    /\ cleared' = [cleared EXCEPT ![r] = IF @ = "undetected" /\ exists THEN "no" ELSE @]
    /\ UNCHANGED <<pacman_db_lock, now, started, stdout, exitStatus, handleAt,
                   firstCheck, sleeps, exitAt, lockHist,
                   handle, call, pkgVars, dlVars>>

\* mutant: the sleep lasts two poll intervals
Sleep_Double(r) ==
    /\ pc[r] = "L25"
    /\ now' = now + 2 * PollInterval
    /\ sleeps' = [sleeps EXCEPT ![r] = @ + 1]
    /\ pc' = [pc EXCEPT ![r] = "L27"]
    /\ sinceCheck' = [sinceCheck EXCEPT ![r] = Append(@, 2 * PollInterval)]
    /\ UNCHANGED <<pacman_db_lock, started, stdout, exitStatus, handleAt,
                   firstCheck, lastCheck, firstLoopCheck, exitAt, lockHist,
                   cleared, handle, call, pkgVars, dlVars>>

\* mutant: the sleep is skipped, the clock does not advance
Sleep_Skipped(r) ==
    /\ pc[r] = "L25"
    /\ pc' = [pc EXCEPT ![r] = "L27"]
    /\ UNCHANGED <<pacman_db_lock, now, started, stdout, exitStatus, handleAt,
                   firstCheck, lastCheck, firstLoopCheck, sleeps, exitAt, lockHist,
                   sinceCheck, cleared, handle, call, pkgVars, dlVars>>

\* line 25: time.sleep(0.25)
Sleep(r) ==
    /\ pc[r] = "L25"
    /\ now' = now + PollInterval
    /\ sleeps' = [sleeps EXCEPT ![r] = @ + 1]
    /\ pc' = [pc EXCEPT ![r] = "L27"]
    /\ sinceCheck' = [sinceCheck EXCEPT ![r] = Append(@, PollInterval)]
    /\ UNCHANGED <<pacman_db_lock, started, stdout, exitStatus, handleAt,
                   firstCheck, lastCheck, firstLoopCheck, exitAt, lockHist,
                   cleared, handle, call, pkgVars, dlVars>>

\* mutant: the timeout is taken only if the lock is still there
CeilingCheck_Recheck(r) ==
    /\ pc[r] = "L27"
    /\ pc' = [pc EXCEPT ![r] = IF now - started[r] > Ceiling /\ exists THEN "L28" ELSE "L24"]
    /\ UNCHANGED <<pacman_db_lock, now, started, stdout, exitStatus, handleAt,
                   firstCheck, lastCheck, firstLoopCheck, sleeps, exitAt, lockHist,
                   sinceCheck, cleared, handle, call, pkgVars, dlVars>>

\* mutant: the ceiling comparison is >= instead of >
CeilingCheck_NonStrict(r) ==
    /\ pc[r] = "L27"
    /\ pc' = [pc EXCEPT ![r] = IF now - started[r] >= Ceiling THEN "L28" ELSE "L24"]
    /\ UNCHANGED <<pacman_db_lock, now, started, stdout, exitStatus, handleAt,
                   firstCheck, lastCheck, firstLoopCheck, sleeps, exitAt, lockHist,
                   sinceCheck, cleared, handle, call, pkgVars, dlVars>>

\* line 27: if time.time() - started > (60 * 10):
CeilingCheck(r) ==
    /\ pc[r] = "L27"
    /\ pc' = [pc EXCEPT ![r] = IF now - started[r] > Ceiling THEN "L28" ELSE "L24"]
    /\ UNCHANGED <<pacman_db_lock, now, started, stdout, exitStatus, handleAt,
                   firstCheck, lastCheck, firstLoopCheck, sleeps, exitAt, lockHist,
                   sinceCheck, cleared, handle, call, pkgVars, dlVars>>

\* mutant: the stale lock file is removed on timeout
Error_ForceUnlock(r) ==
    /\ pc[r] = "L28"
    /\ error(r)
    /\ pacman_db_lock' = FALSE
    /\ pc' = [pc EXCEPT ![r] = "L29"]
    /\ UNCHANGED <<now, started, exitStatus, handleAt,
                   firstCheck, lastCheck, firstLoopCheck, sleeps, exitAt, lockHist,
                   sinceCheck, cleared, handle, call, pkgVars, dlVars>>

\* line 28: error(...)
Error(r) ==
    /\ pc[r] = "L28"
    /\ error(r)
    /\ pc' = [pc EXCEPT ![r] = "L29"]
    /\ UNCHANGED <<pacman_db_lock, now, started, exitStatus, handleAt,
                   firstCheck, lastCheck, firstLoopCheck, sleeps, exitAt, lockHist,
                   sinceCheck, cleared, handle, call, pkgVars, dlVars>>

\* mutant: the exit is missing, the loop goes on after the error message
Exit_Missing(r) ==
    /\ pc[r] = "L29"
    /\ pc' = [pc EXCEPT ![r] = "L24"]
    /\ UNCHANGED <<pacman_db_lock, now, started, stdout, exitStatus, handleAt,
                   firstCheck, lastCheck, firstLoopCheck, sleeps, exitAt, lockHist,
                   sinceCheck, cleared, handle, call, pkgVars, dlVars>>

\* line 29: exit(1)
Exit(r) ==
    /\ pc[r] = "L29"
    /\ exitStatus' = [exitStatus EXCEPT ![r] = ExitCode]
    /\ exitAt' = [exitAt EXCEPT ![r] = now]
    /\ pc' = [pc EXCEPT ![r] = "TimedOut"]
    /\ UNCHANGED <<pacman_db_lock, now, started, stdout, handleAt,
                   firstCheck, lastCheck, firstLoopCheck, sleeps, lockHist,
                   sinceCheck, cleared, handle, call, pkgVars, dlVars>>

\* mutant: the space between command and arguments is missing
Return_NoSpace(r) ==
    /\ pc[r] = "L31"
    /\ handleAt' = [handleAt EXCEPT ![r] = now]
    /\ pc' = [pc EXCEPT ![r] = "Invoking"]
    /\ handle' = [handle EXCEPT ![r] = <<default_cmd(r) \o args(r)>>]
    /\ UNCHANGED <<pacman_db_lock, now, started, stdout, exitStatus,
                   firstCheck, lastCheck, firstLoopCheck, sleeps, exitAt, lockHist,
                   sinceCheck, cleared, call, pkgVars, dlVars>>

\* line 31: return SysCommand(f'{default_cmd} {args}')
Return(r) ==
    /\ pc[r] = "L31"
    /\ handleAt' = [handleAt EXCEPT ![r] = now]
    /\ pc' = [pc EXCEPT ![r] = "Invoking"]
    /\ handle' = [handle EXCEPT ![r] = <<default_cmd(r) \o " " \o args(r)>>]
    /\ UNCHANGED <<pacman_db_lock, now, started, stdout, exitStatus,
                   firstCheck, lastCheck, firstLoopCheck, sleeps, exitAt, lockHist,
                   sinceCheck, cleared, call, pkgVars, dlVars>>

\* the caller's command, run through the returned handle, comes to an end
CommandFinished(r) ==
    /\ pc[r] = "Invoking"
    /\ pc' = [pc EXCEPT ![r] = "Finished"]
    /\ UNCHANGED <<pacman_db_lock, now, started, stdout, exitStatus, handleAt,
                   firstCheck, lastCheck, firstLoopCheck, sleeps, exitAt, lockHist,
                   sinceCheck, cleared, handle, call, pkgVars, dlVars>>

run_pacman(r) ==
    \/ FirstCheck(r)
    \/ Warn(r)
    \/ ReadStarted(r)
    \/ LoopCheck(r)
    \/ Sleep(r)
    \/ CeilingCheck(r)
    \/ Error(r)
    \/ Exit(r)
    \/ Return(r)

\* ------------------------------------------- the package manager (external)
\* the tool takes its database lock
ToolCreatesLock ==
    /\ ~pacman_db_lock
    /\ pacman_db_lock' = TRUE
    /\ lockHist' = [r \in Runners |-> IF firstCheck[r] = "none" THEN Held ELSE Other]
    /\ UNCHANGED <<now, runnerVars, cleared, pkgVars, dlVars>>

\* the tool releases its database lock
ToolDeletesLock ==
    /\ pacman_db_lock
    /\ pacman_db_lock' = FALSE
    /\ lockHist' = [r \in Runners |->
                      IF firstCheck[r] = "none" THEN Held
                      ELSE IF lockHist[r] = Held THEN Removed(now) ELSE Other]
    /\ cleared' = [r \in Runners |->
                      IF cleared[r] = "no" /\ (started[r] = Unset \/ now - started[r] < Ceiling)
                      THEN "yes" ELSE cleared[r]]
    /\ UNCHANGED <<now, runnerVars, pkgVars, dlVars>>

\* ------------------------------------------------------- specifications
\* one process calls run_pacman
Next ==
    \/ \E r \in Solo : run_pacman(r)
    \/ \E r \in Solo : CommandFinished(r)
    \/ ToolCreatesLock
    \/ ToolDeletesLock

Spec == Init /\ [][Next]_vars

\* the runner is scheduled: it is never suspended forever
FairSpec == Spec /\ \A r \in Solo : WF_vars(run_pacman(r))

\* NumRunners processes call run_pacman concurrently; each is followed for
\* MaxPollsMulti sleeps
NextMulti ==
    \/ \E r \in Runners : sleeps[r] < MaxPollsMulti /\ run_pacman(r)
    \/ \E r \in Runners : CommandFinished(r)
    \/ ToolCreatesLock
    \/ ToolDeletesLock

SpecMulti == Init /\ [][NextMulti]_vars

\* one process calls run_pacman with any of the argument pairs
InitCmd ==
    /\ Called(Args, CmdGiven)
    /\ \A r \in Runners : call[r] = call[1]

SpecCmd == InitCmd /\ [][Next]_vars

\* Two runs of run_pacman compared in lock-step: runner 1 makes the usual call,
\* runner 2 any call.  Runner 1 takes a step, then runner 2 takes its step in
\* the same world: the tool moves only between two such rounds, and both
\* runners read the clock after both have slept.
Pair == {1, 2}

GateState(r) ==
    <<pc[r], started[r], stdout[r], exitStatus[r], handleAt[r], exitAt[r],
      firstCheck[r], lastCheck[r], firstLoopCheck[r], sleeps[r]>>

Level == GateState(2) = GateState(1)

InitPair ==
    /\ Called(Args, CmdGiven)
    /\ \A r \in Runners \ {2} : call[r] = [args |-> "-Syy", default_cmd |-> Omitted]

NextPair ==
    \/ Level /\ run_pacman(1)
    \/ Level /\ CommandFinished(1)
    \/ ~Level /\ run_pacman(2)
    \/ ~Level /\ CommandFinished(2)
    \/ Level /\ ToolCreatesLock
    \/ Level /\ ToolDeletesLock

SpecPair == InitPair /\ [][NextPair]_vars

\* ------------------------------------------------------------ text helpers
\* A text is a sequence of characters, a word a text without blanks.
Texts(alphabet, n) == UNION {[1..k -> alphabet] : k \in 0..n}

\* str.lstrip()
RECURSIVE LStrip(_)
LStrip(t) == IF t # <<>> /\ Head(t) = " " THEN LStrip(Tail(t)) ELSE t

\* str.rstrip()
RECURSIVE RStrip(_)
RStrip(t) == IF t # <<>> /\ t[Len(t)] = " " THEN RStrip(SubSeq(t, 1, Len(t) - 1)) ELSE t

\* str.strip()
Strip(t) == RStrip(LStrip(t))

\* the first word of a text that starts with a non-blank
RECURSIVE FirstWord(_)
FirstWord(t) == IF t = <<>> \/ Head(t) = " " THEN <<>> ELSE <<Head(t)>> \o FirstWord(Tail(t))

\* str.split(): the words between runs of blanks
RECURSIVE Split(_)
Split(t) ==
    LET u == LStrip(t)
        w == FirstWord(u)
    IN IF u = <<>> THEN <<>> ELSE <<w>> \o Split(SubSeq(u, Len(w) + 1, Len(u)))

\* ' '.join(p)
RECURSIVE Join(_)
Join(p) ==
    IF p = <<>> THEN <<>>
    ELSE IF Len(p) = 1 THEN p[1]
    ELSE p[1] \o <<" ">> \o Join(Tail(p))

Range(q) == {q[i] : i \in DOMAIN q}

\* the lists that hold every element of S once
Orderings(S) == {q \in [1..Cardinality(S) -> S] : Range(q) = S}

\* log() applied to a stream of message levels
logged(out, level) == IF level # DEBUG THEN Append(out, level) ELSE out

\* ------------------------- general_conf.py, ask_additional_packages_to_install
PackageAlphabet == {" ", "a", "b"}
Presets == {<<>>, <<<<"a">>>>, <<<<"a">>, <<"b">>>>}

\* lines 127-130: read_packages(p), the user typing the text t
read_packages(p, t) ==
    LET input_packages == Strip(t)
    IN [display |-> Join(p),
        packages |-> IF input_packages # <<>> THEN Split(input_packages) ELSE <<>>]

\* validate_package_list(packages): some of the names are found in the
\* repository, the others are not; each list holds its names once, in any order
validate_package_list(pkgs) ==
    {[valid |-> v, invalid |-> i] :
        <<v, i>> \in UNION {Orderings(V) \X Orderings(Range(pkgs) \ V) : V \in SUBSET Range(pkgs)}}

\* ask_additional_packages_to_install is about to be entered
PkgCalled ==
    /\ pkgPc = "L132"
    /\ storage \in [offline : BOOLEAN, no_pkg_lookups : BOOLEAN]
    /\ preset \in Presets
    /\ packages = <<>>
    /\ valid = <<>>
    /\ invalid = <<>>
    /\ display = <<>>
    /\ pkgOut = <<>>
    /\ prompts = 0
    /\ entered = <<>>
    /\ validated = <<>>
    /\ validations = 0
    /\ result = <<>>

\* lines 132-133: preset = preset if preset else []; packages = read_packages(preset)
AskPackages ==
    /\ pkgPc = "L132"
    /\ \E t \in Texts(PackageAlphabet, MaxText) :
          LET p == IF preset # <<>> THEN preset ELSE <<>>
              read == read_packages(p, t)
          IN /\ display' = read.display
             /\ packages' = read.packages
             /\ entered' = read.packages
    /\ prompts' = prompts + 1
    /\ pkgPc' = "L135"
    /\ UNCHANGED <<storage, preset, valid, invalid, pkgOut, validated, validations, result>>
    /\ UNCHANGED <<pacmanVars, dlVars>>

\* line 135: if not storage['arguments']['offline'] and not storage['arguments']['no_pkg_lookups']:
CheckLookups ==
    /\ pkgPc = "L135"
    /\ pkgPc' = IF ~storage.offline /\ ~storage.no_pkg_lookups THEN "L137" ELSE "L148"
    /\ UNCHANGED <<storage, preset, packages, valid, invalid, display, pkgOut,
                   prompts, entered, validated, validations, result>>
    /\ UNCHANGED <<pacmanVars, dlVars>>

\* mutant: the list is accepted although some packages were not found
Validate_AcceptsInvalid ==
    /\ pkgPc = "L137"
    /\ IF Len(packages) > 0
       THEN /\ \E v \in validate_package_list(packages) :
                  /\ valid' = v.valid
                  /\ invalid' = v.invalid
            /\ pkgPc' = "L148"
            /\ validated' = packages
            /\ validations' = validations + 1
       ELSE /\ pkgPc' = "L148"
            /\ UNCHANGED <<valid, invalid, validated, validations>>
    /\ UNCHANGED <<storage, preset, packages, display, pkgOut, prompts, entered, result>>
    /\ UNCHANGED <<pacmanVars, dlVars>>

\* lines 137-146: one turn of the loop up to the test of invalid
Validate ==
    /\ pkgPc = "L137"
    /\ IF Len(packages) > 0
       THEN /\ \E v \in validate_package_list(packages) :
                  /\ valid' = v.valid
                  /\ invalid' = v.invalid
                  /\ pkgPc' = IF v.invalid # <<>> THEN "L143" ELSE "L148"
            /\ validated' = packages
            /\ validations' = validations + 1
       ELSE /\ pkgPc' = "L148"
            /\ UNCHANGED <<valid, invalid, validated, validations>>
    /\ UNCHANGED <<storage, preset, packages, display, pkgOut, prompts, entered, result>>
    /\ UNCHANGED <<pacmanVars, dlVars>>

\* line 143: warn(...)
WarnInvalid ==
    /\ pkgPc = "L143"
    /\ pkgOut' = logged(pkgOut, WARN)
    /\ pkgPc' = "L144"
    /\ UNCHANGED <<storage, preset, packages, valid, invalid, display,
                   prompts, entered, validated, validations, result>>
    /\ UNCHANGED <<pacmanVars, dlVars>>

\* lines 144-145: packages = read_packages(valid); continue
AskAgain ==
    /\ pkgPc = "L144"
    /\ prompts < MaxPrompts
    /\ \E t \in Texts(PackageAlphabet, MaxText) :
          LET read == read_packages(valid, t)
          IN /\ display' = read.display
             /\ packages' = read.packages
             /\ entered' = read.packages
    /\ prompts' = prompts + 1
    /\ pkgPc' = "L137"
    /\ UNCHANGED <<storage, preset, valid, invalid, pkgOut, validated, validations, result>>
    /\ UNCHANGED <<pacmanVars, dlVars>>

\* line 148: return packages
ReturnPackages ==
    /\ pkgPc = "L148"
    /\ result' = <<packages>>
    /\ pkgPc' = "returned"
    /\ UNCHANGED <<storage, preset, packages, valid, invalid, display, pkgOut,
                   prompts, entered, validated, validations>>
    /\ UNCHANGED <<pacmanVars, dlVars>>

InitPackages == RunnerIdle /\ PkgCalled /\ DlIdle

NextPackages ==
    \/ AskPackages
    \/ CheckLookups
    \/ Validate
    \/ WarnInvalid
    \/ AskAgain
    \/ ReturnPackages

SpecPackages == InitPackages /\ [][NextPackages]_vars

\* -------------------------- general_conf.py, add_number_of_parrallel_downloads
NumberAlphabet == {" ", "-", "0", "3", "5", "6", "x"}
Digits == <<"0", "1", "2", "3", "4", "5", "6", "7", "8", "9">>

IsDigit(c) == \E d \in DOMAIN Digits : Digits[d] = c

DigitValue(c) == (CHOOSE d \in DOMAIN Digits : Digits[d] = c) - 1

AllDigits(t) == t # <<>> /\ \A i \in DOMAIN t : IsDigit(t[i])

\* the value of a run of decimal digits
RECURSIVE Decimal(_)
Decimal(t) == IF t = <<>> THEN 0 ELSE 10 * Decimal(SubSeq(t, 1, Len(t) - 1)) + DigitValue(t[Len(t)])

\* int(text) succeeds: an optional sign and decimal digits, blanks around them
IsInt(t) ==
    LET u == Strip(t)
    IN u # <<>> /\ AllDigits(IF Head(u) \in {"-", "+"} THEN Tail(u) ELSE u)

\* int(text)
IntOf(t) ==
    LET u == Strip(t)
    IN IF Head(u) = "-" THEN 0 - Decimal(Tail(u))
       ELSE IF Head(u) = "+" THEN Decimal(Tail(u))
       ELSE Decimal(u)

\* f"{n}" of a number n >= 0
RECURSIVE Str(_)
Str(n) == IF n < 10 THEN <<Digits[n + 1]>> ELSE Str(n \div 10) \o <<Digits[(n % 10) + 1]>>

\* A line of pacman.conf is a sequence of pieces of text; the option name
\* ParallelDownloads is one piece.
ConfLines ==
    {<<"[options]">>,
     <<"Color">>,
     <<"#", "ParallelDownloads", " = ", "5">>,
     <<"ParallelDownloads", " = ", "3">>}

\* "ParallelDownloads" in line
HasParallelDownloads(line) == \E i \in DOMAIN line : line[i] = "ParallelDownloads"

\* f.read().split("\n"): the terminated lines and what follows the last newline
SplitLines(file) == Append(file.lines, file.tail)

ConfFiles ==
    [lines : UNION {[1..k -> ConfLines] : k \in 0..MaxConfLines},
     tail : ConfLines \cup {<<>>}]

\* add_number_of_parrallel_downloads is about to be entered
DlCalled ==
    /\ dlPc = "L159"
    /\ input_number = Unset
    /\ conf_file \in ConfFiles
    /\ conf_before = conf_file
    /\ pacman_conf = <<>>
    /\ dlTyped = <<>>
    /\ dlPrompts = 0
    /\ dlResult = Unset

\* mutant: the upper clamp is missing
AskDownloads_NoUpperClamp ==
    /\ dlPc = "L159"
    /\ dlPrompts < MaxPrompts
    /\ \E t \in Texts(NumberAlphabet, MaxNumberText) :
          /\ dlTyped' = t
          /\ IF Strip(t) = <<>>
             THEN input_number' = 0 /\ dlPc' = "L170"
             ELSE IF IsInt(Strip(t))
             THEN /\ input_number' = IF IntOf(Strip(t)) <= 0 THEN 0 ELSE IntOf(Strip(t))
                  /\ dlPc' = "L170"
             ELSE UNCHANGED <<input_number, dlPc>>
    /\ dlPrompts' = dlPrompts + 1
    /\ UNCHANGED <<conf_file, conf_before, pacman_conf, dlResult>>
    /\ UNCHANGED <<pacmanVars, pkgVars>>

\* lines 159-168: one turn of the prompt loop
AskDownloads ==
    /\ dlPc = "L159"
    /\ dlPrompts < MaxPrompts
    /\ \E t \in Texts(NumberAlphabet, MaxNumberText) :
          /\ dlTyped' = t
          /\ IF Strip(t) = <<>>
             THEN input_number' = 0 /\ dlPc' = "L170"
             ELSE IF IsInt(Strip(t))
             THEN /\ input_number' = IF IntOf(Strip(t)) <= 0 THEN 0
                                     ELSE IF IntOf(Strip(t)) > max_downloads THEN max_downloads
                                     ELSE IntOf(Strip(t))
                  /\ dlPc' = "L170"
             ELSE UNCHANGED <<input_number, dlPc>>
    /\ dlPrompts' = dlPrompts + 1
    /\ UNCHANGED <<conf_file, conf_before, pacman_conf, dlResult>>
    /\ UNCHANGED <<pacmanVars, pkgVars>>

\* line 177: the line written in place of a ParallelDownloads line
ParallelDownloadsLine(n) ==
    IF ~(n = 0) THEN <<"ParallelDownloads", " = ">> \o Str(n + 1)
    ELSE <<"#", "ParallelDownloads", " = ", "0">>

\* lines 170-179: read pacman.conf, write every line back followed by "\n"
RewriteConf ==
    /\ dlPc = "L170"
    /\ pacman_conf' = SplitLines(conf_file)
    /\ conf_file' =
          [lines |-> [i \in DOMAIN pacman_conf' |->
                        IF HasParallelDownloads(pacman_conf'[i])
                        THEN ParallelDownloadsLine(input_number)
                        ELSE pacman_conf'[i]],
           tail |-> <<>>]
    /\ dlPc' = "L181"
    /\ UNCHANGED <<input_number, conf_before, dlTyped, dlPrompts, dlResult>>
    /\ UNCHANGED <<pacmanVars, pkgVars>>

\* line 181: return input_number
ReturnNumber ==
    /\ dlPc = "L181"
    /\ dlResult' = input_number
    /\ dlPc' = "returned"
    /\ UNCHANGED <<input_number, conf_file, conf_before, pacman_conf, dlTyped, dlPrompts>>
    /\ UNCHANGED <<pacmanVars, pkgVars>>

InitDownloads == RunnerIdle /\ PkgIdle /\ DlCalled

NextDownloads ==
    \/ AskDownloads
    \/ RewriteConf
    \/ ReturnNumber

SpecDownloads == InitDownloads /\ [][NextDownloads]_vars

\* ---------------------------------------------------------------- claims
\* number of sleeps after which elapsed time is exactly the ceiling
Polls == Ceiling \div PollInterval

HandleProduced(r) == handleAt[r] # Unset

CeilingFired(r) == pc[r] \in {"L28", "L29", "TimedOut"}

Terminal(r) == pc[r] \in {"Invoking", "Finished", "TimedOut"}

Warnings(r) == Count(stdout[r], WARN)

Fatals(r) == Count(stdout[r], ERROR)

\* the lock was present at the first check and the tool has not touched it since
NeverCleared(r) == firstCheck[r] = "present" /\ lockHist[r] = Held

\* the lock was present at the first check, then removed once, strictly before
\* the ceiling, and not created again
RemovedInTime(r) ==
    /\ firstCheck[r] = "present"
    /\ lockHist[r].kind = "removed"
    /\ started[r] # Unset => lockHist[r].at - started[r] < Ceiling

\* C1: a handle exists only when the most recent lock check of the run saw the
\* lock absent, never on the timeout path, and no lock check is made once the
\* handle exists (the absent check is the last check of the run).
C1_HandleOnlyAfterAbsentCheck ==
    /\ [](\A r \in Solo :
            /\ (pc[r] = "L31" \/ HandleProduced(r)) => lastCheck[r] = "absent"
            /\ HandleProduced(r) <=> pc[r] \in {"Invoking", "Finished"}
            /\ lastCheck[r] = "present" => pc[r] \in {"L21", "L23", "L24", "L25", "L27", "L28", "L29", "TimedOut"})
    /\ [][\A r \in Solo : HandleProduced(r) => ~(FirstCheck(r) \/ LoopCheck(r))]_vars

\* C1 witness: a handle produced after the lock was seen present and then absent
C1_Witness ==
    \E r \in Solo : HandleProduced(r) /\ firstCheck[r] = "present" /\ sleeps[r] >= 2

\* C2: the step that produces the handle is taken only in a state where the
\* lock file does not exist.
C2_NoHandleWhileLocked ==
    [][\A r \in Solo : (~HandleProduced(r) /\ HandleProduced(r)') => ~pacman_db_lock]_vars

\* C3: no two runners hold a handle whose command has not finished at the
\* same time.
C3_Serialized ==
    \A r1, r2 \in Runners : r1 # r2 => ~(pc[r1] = "Invoking" /\ pc[r2] = "Invoking")

\* C4: with a lock that never clears the runner produces no handle, keeps
\* polling only while elapsed time is at most 600 s, and exits at an elapsed
\* time above 600 s and at most 600 s + 250 ms.
C4_BoundedWait ==
    \A r \in Solo : NeverCleared(r) =>
        /\ ~HandleProduced(r) /\ pc[r] # "L31"
        /\ pc[r] \in {"L24", "L25"} => now - started[r] <= Ceiling
        /\ pc[r] = "L27" => now - started[r] <= Ceiling + PollInterval
        /\ pc[r] \in {"L28", "L29"} =>
              now - started[r] > Ceiling /\ now - started[r] <= Ceiling + PollInterval
        /\ pc[r] = "TimedOut" =>
              exitAt[r] - started[r] > Ceiling /\ exitAt[r] - started[r] <= Ceiling + PollInterval

\* C4 witness: the process exited on a lock that never cleared
C4_Witness ==
    \E r \in Solo : pc[r] = "TimedOut" /\ NeverCleared(r)
                    /\ exitAt[r] - started[r] = Ceiling + PollInterval

C6_TimeoutTerminal ==
    /\ [](\A r \in Solo :
            /\ CeilingFired(r) => ~HandleProduced(r)
            /\ pc[r] = "L28" => Fatals(r) = 0 /\ exitStatus[r] = Unset
            /\ pc[r] = "L29" => Fatals(r) = 1 /\ exitStatus[r] = Unset
            /\ pc[r] = "TimedOut" => Fatals(r) = 1 /\ exitStatus[r] = 1
            /\ ~CeilingFired(r) => Fatals(r) = 0 /\ exitStatus[r] = Unset)
    /\ [][\A r \in Solo : pc[r] = "TimedOut" => UNCHANGED runnerVars]_vars

\* C6 witness: the process has exited after the timeout
C6_Witness ==
    \E r \in Solo : pc[r] = "TimedOut" /\ stdout[r] = <<WARN, ERROR>> /\ exitStatus[r] = 1

\* C7: a run that sleeps has exactly one warning (written before the first
\* sleep), a finished run that never slept has none, and no run has two.
C7_WarnExactlyOnce ==
    \A r \in Solo :
        /\ (sleeps[r] >= 1 \/ pc[r] = "L25") => Warnings(r) = 1
        /\ (Terminal(r) /\ sleeps[r] = 0) => Warnings(r) = 0
        /\ Warnings(r) <= 1

\* C8: lock present at the first check, removed once strictly before the
\* ceiling and absent since: one warning, no timeout, and the handle is
\* produced no earlier than the removal and at most 250 ms after it.
C8_ReleasedLock ==
    \A r \in Solo : RemovedInTime(r) =>
        /\ ~CeilingFired(r) /\ Fatals(r) = 0
        /\ pc[r] # "L21" => stdout[r] = <<WARN>>
        /\ ~Terminal(r) => now - lockHist[r].at <= PollInterval
        /\ HandleProduced(r) =>
              /\ handleAt[r] >= lockHist[r].at
              /\ handleAt[r] - lockHist[r].at <= PollInterval

\* C8 witness: handle produced one poll interval after a late removal
C8_Witness ==
    \E r \in Solo : RemovedInTime(r) /\ HandleProduced(r) /\ sleeps[r] >= 3
                    /\ handleAt[r] - lockHist[r].at = PollInterval

\* C9: every step of run_pacman leaves the lock file as it is.
C9_LockReadOnly ==
    [][\A r \in Solo : run_pacman(r) => pacman_db_lock' = pacman_db_lock]_vars

\* C9 witness: a whole run through warning, polling, timeout and exit with the
\* lock file still in place
C9_Witness ==
    \E r \in Solo : pc[r] = "TimedOut" /\ pacman_db_lock /\ lockHist[r] = Held

\* C10: under fair scheduling of the runner every call ends in Invoking or
\* TimedOut, whatever the tool does with the lock.
C10_Terminates ==
    \A r \in Solo : <>(pc[r] \in {"Invoking", "TimedOut"})

\* C10 witness: a run that ended although the lock was re-created while it waited
C10_Witness ==
    \E r \in Solo : Terminal(r) /\ sleeps[r] >= 2 /\ lockHist[r] = Other

\* C11: the process exits on timeout only if the lock file existed at every
\* instant from the first check that saw it until the ceiling had elapsed.
C11_TimeoutOnlyIfNeverCleared ==
    \A r \in Solo : CeilingFired(r) => cleared[r] = "no"

\* C12 (as stated): whenever the runner checks the lock again, exactly one
\* 250 ms sleep lies between this check and the previous one.
C12_Original ==
    [][\A r \in Solo : (LoopCheck(r) /\ lastCheck[r] # "none")
                          => sinceCheck[r] = <<PollInterval>>]_vars

\* C12 (amended): between two successive line-24 checks lies exactly one sleep
\* of 250 ms; between the line-20 check and the first line-24 check lies none.
C12_PollInterval ==
    [][\A r \in Solo : LoopCheck(r) =>
            sinceCheck[r] = IF firstLoopCheck[r] = "none" THEN <<>> ELSE <<PollInterval>>]_vars

\* C12 witness: a second poll-loop check has been made, one sleep after the first
C12_Witness ==
    \E r \in Solo : sleeps[r] = 1 /\ pc[r] = "L25" /\ sinceCheck[r] = <<>>

\* the command string of every call of the bounded set, written out
ExpectedCommand ==
    {<<"-Syy", Omitted, "pacman -Syy">>,
     <<"-Syy", "pacman", "pacman -Syy">>,
     <<"-Syy", "pacman-key", "pacman-key -Syy">>,
     <<"--noconfirm -S vim", Omitted, "pacman --noconfirm -S vim">>,
     <<"--noconfirm -S vim", "pacman", "pacman --noconfirm -S vim">>,
     <<"--noconfirm -S vim", "pacman-key", "pacman-key --noconfirm -S vim">>}

\* C13: a handle exists exactly when run_pacman has returned, and its command
\* string is default_cmd ('pacman' when omitted), one space, args, whatever
\* the lock did during the run.
C13_HandleIsRequest ==
    \A r \in Solo :
        /\ HandleProduced(r) <=> handle[r] # <<>>
        /\ handle[r] # <<>> =>
              /\ Len(handle[r]) = 1
              /\ <<call[r].args, call[r].default_cmd, handle[r][1]>> \in ExpectedCommand

\* C13 witness: a handle for a named tool, returned after polling
C13_Witness ==
    \E r \in Solo : handle[r] = <<"pacman-key --noconfirm -S vim">> /\ sleeps[r] >= 2

\* C14: a run with other arguments, given the same lock observations and clock
\* readings, makes the same checks, sleeps, messages and ends the same way:
\* every step of the second run brings it to the gate state of the first.
C14_GateIgnoresCommand ==
    [][(run_pacman(2) \/ CommandFinished(2)) => GateState(2)' = GateState(1)']_vars

\* C14 witness: two runs with different tools that waited and ended alike
C14_Witness ==
    /\ Level /\ default_cmd(1) # default_cmd(2) /\ args(1) # args(2)
    /\ pc[2] = "Invoking" /\ sleeps[2] >= 2 /\ handle[1] # handle[2]

\* C15: the runner is back at the lock check when elapsed time is exactly
\* 600 s (after the 2400th sleep) and the ceiling check fires after the 2401st
\* sleep, at 600.25 s; it never fires with elapsed time <= 600 s.
C15_StrictCeiling ==
    /\ [](\A r \in Solo :
            /\ sleeps[r] <= Polls => ~CeilingFired(r)
            /\ CeilingFired(r) => sleeps[r] = Polls + 1
            /\ pc[r] \in {"L28", "L29"} => now - started[r] = Ceiling + PollInterval
            /\ pc[r] = "TimedOut" => exitAt[r] - started[r] = Ceiling + PollInterval
            /\ (pc[r] = "L27" /\ sleeps[r] = Polls) => now - started[r] = Ceiling)
    /\ [][\A r \in Solo : (CeilingCheck(r) /\ now - started[r] = Ceiling) => pc'[r] = "L24"]_vars

\* C15 witness: still polling at exactly 600 s
C15_Witness ==
    \E r \in Solo : pc[r] = "L25" /\ sleeps[r] = Polls /\ now - started[r] = Ceiling

\* C16: after a sleep comes the ceiling check, not a lock check; when elapsed
\* time is above 600 s it leads to the error and the exit whether or not the
\* lock file still exists.
C16_TimeoutBeforeRecheck ==
    /\ [](\A r \in Solo : (pc[r] = "L27" \/ CeilingFired(r)) => lastCheck[r] = "present")
    /\ [][\A r \in Solo :
            /\ Sleep(r) => pc'[r] = "L27"
            /\ (CeilingCheck(r) /\ now - started[r] > Ceiling) =>
                  pc'[r] = "L28" /\ lastCheck'[r] = lastCheck[r]]_vars
    /\ [][\A r \in Solo : (pc[r] = "L28" /\ run_pacman(r)) => pc'[r] = "L29"]_vars
    /\ [][\A r \in Solo : (pc[r] = "L29" /\ run_pacman(r)) => pc'[r] = "TimedOut"]_vars

\* C16 witness: the process exited although the lock was removed during the
\* last sleep
C16_Witness ==
    \E r \in Solo : pc[r] = "TimedOut" /\ ~pacman_db_lock
                    /\ lockHist[r] = Removed(started[r] + Ceiling)

LookupsEnabled == ~storage.offline /\ ~storage.no_pkg_lookups

\* C17: with lookups enabled the returned list is empty or is the list the
\* last validation found no invalid package in; every validation that reports
\* invalid packages is followed by one warning and by a prompt whose preset is
\* exactly the valid list; with lookups disabled the first entered list is
\* returned and nothing is validated.
C17_PromptValidateLoop ==
    /\ []((pkgPc = "returned" /\ LookupsEnabled) =>
            /\ result = <<entered>>
            /\ \/ result[1] = <<>>
               \/ validations >= 1 /\ validated = result[1] /\ invalid = <<>>
                  /\ Range(valid) = Range(result[1]))
    /\ []((pkgPc \in {"L135", "L137", "L148", "returned"}) =>
            Count(pkgOut, WARN) = prompts - 1 /\ Len(pkgOut) = prompts - 1)
    /\ [][(pkgPc = "L137" /\ pkgPc' # pkgPc /\ validations' # validations /\ invalid' # <<>>) =>
            pkgPc' = "L143"]_vars
    /\ [][(pkgPc = "L143" /\ pkgPc' # pkgPc) =>
            pkgPc' = "L144" /\ pkgOut' = Append(pkgOut, WARN) /\ prompts' = prompts]_vars
    /\ [][(pkgPc = "L144" /\ pkgPc' # pkgPc) =>
            /\ display' = Join(valid) /\ Split(display') = valid
            /\ prompts' = prompts + 1 /\ pkgPc' = "L137"]_vars
    /\ []((pkgPc = "returned" /\ ~LookupsEnabled) =>
            /\ prompts = 1 /\ validations = 0 /\ pkgOut = <<>>
            /\ result = <<entered>>)

\* C17 witness: a non-empty list returned after a warning and a second prompt
C17_Witness ==
    /\ pkgPc = "returned" /\ LookupsEnabled /\ prompts = 2
    /\ result = <<<< <<"a">>, <<"b">> >>>> /\ display = <<"b">>

\* the number a typed text stands for: blank is 0
Entered(t) == IF Strip(t) = <<>> THEN 0 ELSE IntOf(t)

\* the lines of pacman.conf before the call, the unterminated last one included
LinesBefore == Append(conf_before.lines, conf_before.tail)

\* C18: the call goes on only after an integer (or nothing) was typed and
\* prompts again otherwise; the returned number is the typed one brought into
\* 0..5; every line of pacman.conf that held ParallelDownloads reads
\* 'ParallelDownloads = <returned + 1>', or '#ParallelDownloads = 0' when the
\* returned number is 0.
C18_ParallelDownloads ==
    /\ []((dlPc \in {"L170", "L181", "returned"}) =>
            /\ Strip(dlTyped) = <<>> \/ IsInt(dlTyped)
            /\ input_number \in 0..5
            /\ Entered(dlTyped) <= 0 => input_number = 0
            /\ Entered(dlTyped) > 5 => input_number = 5
            /\ Entered(dlTyped) \in 1..5 => input_number = Entered(dlTyped))
    /\ []((dlPc = "L159" /\ dlPrompts > 0) =>
            /\ ~(Strip(dlTyped) = <<>> \/ IsInt(dlTyped))
            /\ conf_file = conf_before /\ dlResult = Unset)
    /\ []((dlPc = "returned") =>
            /\ dlResult = input_number
            /\ Len(conf_file.lines) = Len(LinesBefore)
            /\ \A i \in DOMAIN LinesBefore :
                  HasParallelDownloads(LinesBefore[i]) =>
                     conf_file.lines[i] =
                        IF dlResult # 0
                        THEN <<"ParallelDownloads", " = ", Digits[dlResult + 2]>>
                        ELSE <<"#", "ParallelDownloads", " = ", "0">>)
    /\ []((dlPc \in {"L159", "L170"}) => conf_file = conf_before)

\* C18 witness: 6 typed after a rejected text, 5 returned, the option line set to 6
C18_Witness ==
    /\ dlPc = "returned" /\ dlPrompts = 2 /\ dlTyped = <<"6">> /\ dlResult = 5
    /\ conf_before.lines = << <<"#", "ParallelDownloads", " = ", "5">>, <<"Color">> >>
    /\ conf_file.lines[1] = <<"ParallelDownloads", " = ", "6">>

====
